---- MODULE Spec2Model ----
(***************************************************************************)
(* micrograd.c: a scalar reverse-mode autodiff engine.  Tape nodes live in *)
(* the static array tape_memory and are handed out by the cursor           *)
(* tape_head; parameters live on the heap in the list parameters_head.     *)
(* A Value* is modelled as an integer: i >= 0 is &tape_memory[i], NULL is  *)
(* -1 and the k-th parameter created (k >= 1) is -(k+1).                   *)
(* The float fields data and grad are modelled as exact integers; every    *)
(* operation is guarded so that its results stay within -MaxAbs..MaxAbs.   *)
(* v_exp, v_tanh, true_div and v_div leave the integers and are not        *)
(* modelled.                                                               *)
(***************************************************************************)
EXTENDS Integers, Sequences, FiniteSets, TLC

\* ------------------------------------------------------------- bounds
\* capacity of the tape in the model (the source uses 100000)
MaxTape == 4
\* number of parameters new_param may create
MaxParams == 1
\* largest magnitude of a data or grad field
MaxAbs == 9
\* number of API calls in a run
MaxCalls == 6

MAX_TAPE_SIZE == MaxTape

\* data of the leaves the caller creates; learning rates; exponents
LeafVals == {-2, 3}
ParamVals == {2}
LearnRates == {1}
Exponents == {2}
ActVals == (-3)..3

\* ------------------------------------------------------------- state
VARIABLES
    tape_memory,   \* the array of MAX_TAPE_SIZE Values, indices 0..MAX_TAPE_SIZE-1
    tape_head,     \* the allocation cursor
    parameters,    \* the parameter list, in creation order
    status,        \* "running", "exited" (exit(1)) or "crashed" (a fault)
    ub,            \* TRUE once an access outside an array has happened
    last,          \* the last API call: its name, Value* argument, flag and result
    ncalls         \* the number of API calls made so far

vars == <<tape_memory, tape_head, parameters, status, ub, last, ncalls>>

NULL == -1

TapePtr(i) == i

ParamPtr(k) == -(k + 1)

IsTape(p) == p >= 0

IsParam(p) == p <= -2

ParamIdx(p) == -p - 1

\* a Value struct; tape_idx is -1 for a parameter
Value(d, g, fn, p0, p1, idx) ==
    [data |-> d, grad |-> g, grad_fn |-> fn, prev0 |-> p0, prev1 |-> p1,
     tape_idx |-> idx]

\* a static Value before any allocation: all bytes zero
ZeroValue == Value(0, 0, "NULL", NULL, NULL, 0)

InRange(x) == x \in (-MaxAbs)..MaxAbs

\* The memory both stores live in, as one record, so that the gradient
\* rules can write through a Value* of either kind.
Mem(t, ps) == [tape |-> t, params |-> ps]

Deref(M, p) == IF IsTape(p) THEN M.tape[p] ELSE M.params[ParamIdx(p)]

\* p->grad += d
AddGrad(M, p, d) ==
    IF IsTape(p)
    THEN [M EXCEPT !.tape[p].grad = @ + d]
    ELSE [M EXCEPT !.params[ParamIdx(p)].grad = @ + d]

\* p->grad = g
SetGrad(M, p, g) ==
    IF IsTape(p)
    THEN [M EXCEPT !.tape[p].grad = g]
    ELSE [M EXCEPT !.params[ParamIdx(p)].grad = g]

\* the slots new_val has written at some time: their grad_fn is not NULL
Allocated(i) == tape_memory[i].grad_fn # "NULL"

\* the Value* a caller can hold: every tape node ever returned to it and
\* every parameter; a slot at or above tape_head is a stale handle
TapeHandles == {i \in 0..(MAX_TAPE_SIZE - 1) : Allocated(i)}

ParamHandles == {ParamPtr(k) : k \in 1..Len(parameters)}

Handles == TapeHandles \cup ParamHandles

LiveHandles == {i \in TapeHandles : i < tape_head} \cup ParamHandles

\* a record of one API call: its name, its Value* arguments (NULL where it
\* has none), its flag, the Value* it returned and how it ended: "ok",
\* "exit" (exit(1)) or "fault"
Call(op, a, b, flag, ret, res) ==
    [op |-> op, a |-> a, b |-> b, flag |-> flag, ret |-> ret, result |-> res]

Init ==
    /\ tape_memory = [i \in 0..(MAX_TAPE_SIZE - 1) |-> ZeroValue]
    /\ tape_head = 0
    /\ parameters = <<>>
    /\ status = "running"
    /\ ub = FALSE
    /\ last = Call("init", NULL, NULL, FALSE, NULL, "ok")
    /\ ncalls = 0

\* ------------------------------------------------------- gradient rules
\* Each rule reads and writes through the pointers in order, as the C
\* statements do: an operand may be the node itself or the other operand.

noop_backward(M, self) == M

add_backward(M, self) ==
    LET v == Deref(M, self)
        M1 == AddGrad(M, v.prev0, 1 * v.grad)
    IN  AddGrad(M1, v.prev1, 1 * Deref(M1, self).grad)

sub_backward(M, self) ==
    LET v == Deref(M, self)
        M1 == AddGrad(M, v.prev0, 1 * v.grad)
    IN  AddGrad(M1, v.prev1, -(1 * Deref(M1, self).grad))

\* mul_backward with its second statement assigning instead of adding
mul_backward_overwrite(M, self) ==
    LET v == Deref(M, self)
        M1 == AddGrad(M, v.prev0, Deref(M, v.prev1).data * v.grad)
    IN  SetGrad(M1, v.prev1, Deref(M1, v.prev0).data * Deref(M1, self).grad)

mul_backward(M, self) ==
    LET v == Deref(M, self)
        M1 == AddGrad(M, v.prev0, Deref(M, v.prev1).data * v.grad)
    IN  AddGrad(M1, v.prev1, Deref(M1, v.prev0).data * Deref(M1, self).grad)

RECURSIVE IPow(_, _)
\* pow(x, n) for an integer x and n >= 0
IPow(x, n) == IF n <= 0 THEN 1 ELSE x * IPow(x, n - 1)

pow_backward(M, self) ==
    LET v == Deref(M, self)
        x == Deref(M, v.prev0).data
        n == Deref(M, v.prev1).data
    IN  AddGrad(M, v.prev0, (n * IPow(x, n - 1)) * v.grad)

relu_backward(M, self) ==
    LET v == Deref(M, self)
        x == Deref(M, v.prev0).data
    IN  AddGrad(M, v.prev0, (IF x > 0 THEN 1 ELSE 0) * v.grad)

\* self->grad_fn(self, self->prev)
CallGradFn(M, self) ==
    LET fn == Deref(M, self).grad_fn
    IN  CASE fn = "add_backward" -> add_backward(M, self)
          [] fn = "sub_backward" -> sub_backward(M, self)
          [] fn = "mul_backward" -> mul_backward(M, self)
          [] fn = "pow_backward" -> pow_backward(M, self)
          [] fn = "relu_backward" -> relu_backward(M, self)
          [] OTHER -> noop_backward(M, self)

\* --------------------------------------------------------- allocation

\* new_val without its v->grad = 0.0: the slot keeps the grad it held
StoreNodeKeepGrad(t, h, d, fn, p0, p1) ==
    [t EXCEPT ![h] = Value(d, t[h].grad, fn, p0, p1, h)]

\* the writes of new_val into slot tape_head, with out->grad_fn = fn
StoreNode(t, h, d, fn, p0, p1) ==
    [t EXCEPT ![h] = Value(d, 0, fn, p0, p1, h)]

\* new_val followed by the constructor's out->grad_fn = fn.
\* tape_head > MAX_TAPE_SIZE: the message and exit(1).
\* tape_head = MAX_TAPE_SIZE: the check lets it through and the node is
\* written to tape_memory[MAX_TAPE_SIZE], past the end of the array: the
\* write lands in whatever follows the array and the run goes on with a
\* node the model does not follow, or the process faults.
new_val(op, d, fn, p0, p1) ==
    /\ status = "running"
    /\ ncalls < MaxCalls
    /\ ncalls' = ncalls + 1
    /\ InRange(d)
    /\ parameters' = parameters
    /\ \/ /\ tape_head > MAX_TAPE_SIZE
          /\ status' = "exited"
          /\ last' = Call(op, p0, p1, FALSE, NULL, "exit")
          /\ UNCHANGED <<tape_memory, tape_head, ub>>
       \/ /\ tape_head = MAX_TAPE_SIZE
          /\ ub' = TRUE
          /\ tape_memory' = tape_memory
          /\ \/ /\ tape_head' = tape_head + 1
                /\ status' = status
                /\ last' = Call(op, p0, p1, FALSE, TapePtr(tape_head), "ok")
             \/ /\ status' = "crashed"
                /\ last' = Call(op, p0, p1, FALSE, NULL, "fault")
                /\ tape_head' = tape_head
       \/ /\ tape_head < MAX_TAPE_SIZE
          /\ tape_memory' = StoreNode(tape_memory, tape_head, d, fn, p0, p1)
          /\ tape_head' = tape_head + 1
          /\ last' = Call(op, p0, p1, FALSE, TapePtr(tape_head), "ok")
          /\ UNCHANGED <<status, ub>>

\* a leaf: new_val(data, NULL, NULL)
NewVal(d) == new_val("new_val", d, "noop_backward", NULL, NULL)

CurMem == Mem(tape_memory, parameters)

add(self, other) ==
    new_val("add", Deref(CurMem, self).data + Deref(CurMem, other).data,
            "add_backward", self, other)

sub(self, other) ==
    new_val("sub", Deref(CurMem, self).data - Deref(CurMem, other).data,
            "sub_backward", self, other)

mul(self, other) ==
    new_val("mul", Deref(CurMem, self).data * Deref(CurMem, other).data,
            "mul_backward", self, other)

relu(self) ==
    LET x == Deref(CurMem, self).data
    IN  new_val("relu", IF x > 0 THEN x ELSE 0, "relu_backward", self, NULL)

\* v_pow: new_val for the exponent, then new_val for the result, each with
\* new_val's capacity check, and out->grad_fn = pow_backward
v_pow(self, n) ==
    LET x == Deref(CurMem, self).data
        t1 == StoreNode(tape_memory, tape_head, n, "noop_backward", NULL, NULL)
    IN  /\ status = "running"
        /\ ncalls < MaxCalls
        /\ ncalls' = ncalls + 1
        /\ InRange(IPow(x, n))
        /\ parameters' = parameters
        /\ \/ /\ tape_head + 1 < MAX_TAPE_SIZE
              /\ tape_memory' = StoreNode(t1, tape_head + 1, IPow(x, n), "pow_backward",
                                          self, TapePtr(tape_head))
              /\ tape_head' = tape_head + 2
              /\ last' = Call("v_pow", self, NULL, FALSE, TapePtr(tape_head + 1), "ok")
              /\ UNCHANGED <<status, ub>>
           \/ /\ tape_head + 1 = MAX_TAPE_SIZE
              /\ tape_memory' = t1
              /\ ub' = TRUE
              /\ \/ /\ tape_head' = tape_head + 2
                    /\ status' = status
                    /\ last' = Call("v_pow", self, NULL, FALSE, TapePtr(tape_head + 1), "ok")
                 \/ /\ tape_head' = tape_head + 1
                    /\ status' = "crashed"
                    /\ last' = Call("v_pow", self, NULL, FALSE, NULL, "fault")
           \/ /\ tape_head = MAX_TAPE_SIZE
              /\ tape_memory' = tape_memory
              /\ ub' = TRUE
              /\ \/ /\ tape_head' = tape_head + 1
                    /\ status' = "exited"
                    /\ last' = Call("v_pow", self, NULL, FALSE, NULL, "exit")
                 \/ /\ tape_head' = tape_head
                    /\ status' = "crashed"
                    /\ last' = Call("v_pow", self, NULL, FALSE, NULL, "fault")
           \/ /\ tape_head > MAX_TAPE_SIZE
              /\ status' = "exited"
              /\ last' = Call("v_pow", self, NULL, FALSE, NULL, "exit")
              /\ UNCHANGED <<tape_memory, tape_head, ub>>

new_param(d) ==
    /\ status = "running"
    /\ ncalls < MaxCalls
    /\ ncalls' = ncalls + 1
    /\ Len(parameters) < MaxParams
    /\ parameters' = Append(parameters, Value(d, 0, "noop_backward", NULL, NULL, -1))
    /\ last' = Call("new_param", NULL, NULL, FALSE, ParamPtr(Len(parameters) + 1), "ok")
    /\ UNCHANGED <<tape_memory, tape_head, status, ub>>

free_vals ==
    /\ status = "running"
    /\ ncalls < MaxCalls
    /\ ncalls' = ncalls + 1
    /\ tape_head' = 0
    /\ last' = Call("free_vals", NULL, NULL, FALSE, NULL, "ok")
    /\ UNCHANGED <<tape_memory, parameters, status, ub>>

\* ------------------------------------------------- registry, optimizer

RECURSIVE ZeroParams(_, _)
\* zero_grad's walk of the list: curr->grad = 0 for each parameter
ZeroParams(ps, k) ==
    IF k > Len(ps) THEN ps ELSE ZeroParams([ps EXCEPT ![k].grad = 0], k + 1)

zero_grad ==
    /\ status = "running"
    /\ ncalls < MaxCalls
    /\ ncalls' = ncalls + 1
    /\ parameters' = ZeroParams(parameters, 1)
    /\ last' = Call("zero_grad", NULL, NULL, FALSE, NULL, "ok")
    /\ UNCHANGED <<tape_memory, tape_head, status, ub>>

RECURSIVE ZeroTape(_, _, _)
\* zero_grad_all's loop: tape_memory[i].grad = 0 for i = 0..hi, the
\* indices inside the array
ZeroTape(t, i, hi) ==
    IF i > hi THEN t
    ELSE ZeroTape(IF i < MAX_TAPE_SIZE THEN [t EXCEPT ![i].grad = 0] ELSE t, i + 1, hi)

\* zero_grad(), then the loop i = 0..tape_head inclusive.  With
\* tape_head >= MAX_TAPE_SIZE the loop writes past the end of the array:
\* the write lands outside the tape and the run goes on, or it faults.
zero_grad_all ==
    /\ status = "running"
    /\ ncalls < MaxCalls
    /\ ncalls' = ncalls + 1
    /\ tape_head' = tape_head
    /\ \/ /\ tape_head < MAX_TAPE_SIZE
          /\ parameters' = ZeroParams(parameters, 1)
          /\ tape_memory' = ZeroTape(tape_memory, 0, tape_head)
          /\ last' = Call("zero_grad_all", NULL, NULL, FALSE, NULL, "ok")
          /\ UNCHANGED <<status, ub>>
       \/ /\ tape_head >= MAX_TAPE_SIZE
          /\ ub' = TRUE
          /\ parameters' = ZeroParams(parameters, 1)
          /\ \/ /\ tape_memory' = ZeroTape(tape_memory, 0, tape_head)
                /\ status' = status
                /\ last' = Call("zero_grad_all", NULL, NULL, FALSE, NULL, "ok")
             \/ /\ tape_memory' = ZeroTape(tape_memory, 0, tape_head)
                /\ status' = "crashed"
                /\ last' = Call("zero_grad_all", NULL, NULL, FALSE, NULL, "fault")

RECURSIVE StepParams(_, _, _)
\* update_params' walk of the list: v->data -= lr * v->grad
StepParams(ps, k, lr) ==
    IF k > Len(ps) THEN ps
    ELSE StepParams([ps EXCEPT ![k].data = @ - lr * ps[k].grad], k + 1, lr)

\* update_params walking the live tape nodes as well as the parameters
update_params_tape(lr) ==
    /\ status = "running"
    /\ ncalls < MaxCalls
    /\ ncalls' = ncalls + 1
    /\ \A k \in 1..Len(parameters) : InRange(StepParams(parameters, 1, lr)[k].data)
    /\ parameters' = StepParams(parameters, 1, lr)
    /\ tape_memory' = [i \in DOMAIN tape_memory |->
                         IF i < tape_head
                         THEN [tape_memory[i] EXCEPT !.data = @ - lr * tape_memory[i].grad]
                         ELSE tape_memory[i]]
    /\ last' = Call("update_params", NULL, NULL, FALSE, NULL, "ok")
    /\ UNCHANGED <<tape_head, status, ub>>

update_params(lr) ==
    /\ status = "running"
    /\ ncalls < MaxCalls
    /\ ncalls' = ncalls + 1
    /\ \A k \in 1..Len(parameters) : InRange(StepParams(parameters, 1, lr)[k].data)
    /\ parameters' = StepParams(parameters, 1, lr)
    /\ last' = Call("update_params", NULL, NULL, FALSE, NULL, "ok")
    /\ UNCHANGED <<tape_memory, tape_head, status, ub>>

\* ------------------------------------------------------ backward passes

RECURSIVE Sweep(_, _)
\* the loop of backward: for (i = from; i >= 0; i--) tape_memory[i].grad_fn(...)
Sweep(M, i) == IF i < 0 THEN M ELSE Sweep(CallGradFn(M, TapePtr(i)), i - 1)

\* backward's writes: root->grad = 1.0, then the sweep from root->tape_idx
backward_mem(M, root) ==
    Sweep(SetGrad(M, root, 1), Deref(M, root).tape_idx)

GradsInRange(M) ==
    /\ \A i \in DOMAIN M.tape : InRange(M.tape[i].grad)
    /\ \A k \in DOMAIN M.params : InRange(M.params[k].grad)

\* backward without its free_vals() call
backward_keep(root, retain_graph) ==
    LET M == backward_mem(CurMem, root)
    IN  /\ status = "running"
        /\ ncalls < MaxCalls
        /\ ncalls' = ncalls + 1
        /\ GradsInRange(M)
        /\ tape_memory' = M.tape
        /\ parameters' = M.params
        /\ tape_head' = tape_head
        /\ last' = Call("backward", root, NULL, retain_graph, NULL, "ok")
        /\ UNCHANGED <<status, ub>>

backward(root, retain_graph) ==
    LET M == backward_mem(CurMem, root)
    IN  /\ status = "running"
        /\ ncalls < MaxCalls
        /\ ncalls' = ncalls + 1
        /\ GradsInRange(M)
        /\ tape_memory' = M.tape
        /\ parameters' = M.params
        /\ tape_head' = IF retain_graph THEN tape_head ELSE 0
        /\ last' = Call("backward", root, NULL, retain_graph, NULL, "ok")
        /\ UNCHANGED <<status, ub>>

RECURSIVE build_topo(_, _, _, _, _)
\* build_topo(v, visited, topo, &topo_idx).  st holds visited (the set of
\* indices marked), topo (the list) and oob (an index at or above size,
\* the calloc'ed length, was used).  junk is what a read of visited past
\* its end returns: TRUE a non-zero word, so the node counts as visited.
build_topo(M, v, st, size, junk) ==
    LET n == Deref(M, v)
    IN  IF n.tape_idx < 0 \/ n.grad_fn = "noop_backward" THEN st
        ELSE LET out == n.tape_idx >= size
                 s0 == [st EXCEPT !.oob = @ \/ out]
             IN  IF (out /\ junk /\ n.tape_idx \notin st.visited) \/ n.tape_idx \in st.visited
                 THEN s0
                 ELSE LET s1 == [s0 EXCEPT !.visited = @ \cup {n.tape_idx}]
                          s2 == IF n.prev0 # NULL
                                THEN build_topo(M, n.prev0, s1, size, junk) ELSE s1
                          s3 == IF n.prev1 # NULL
                                THEN build_topo(M, n.prev1, s2, size, junk) ELSE s2
                      IN  [s3 EXCEPT !.topo = Append(@, v)]

RECURSIVE ApplyTopo(_, _, _)
\* the loop of backward_dfs: for (i = topo_idx - 1; i >= 0; i--) topo[i]->grad_fn(...)
ApplyTopo(M, topo, i) ==
    IF i < 1 THEN M ELSE ApplyTopo(CallGradFn(M, topo[i]), topo, i - 1)

TopoOf(M, root, size, junk) ==
    build_topo(M, root, [visited |-> {}, topo |-> <<>>, oob |-> FALSE], size, junk)

\* backward_dfs' writes: the list is built first, then root->grad = 1.0,
\* then the rules are applied from the end of the list
backward_dfs_mem(M, root, size, junk) ==
    LET st == TopoOf(M, root, size, junk)
    IN  ApplyTopo(SetGrad(M, root, 1), st.topo, Len(st.topo))

\* An index at or above tape_head reads and writes past the end of
\* visited (and topo may overflow): the reads return junk, and the run
\* goes on or the heap damage faults the process.
backward_dfs(root, retain_graph) ==
    /\ status = "running"
    /\ ncalls < MaxCalls
    /\ ncalls' = ncalls + 1
    /\ \E junk \in BOOLEAN :
         LET st == TopoOf(CurMem, root, tape_head, junk)
             M == backward_dfs_mem(CurMem, root, tape_head, junk)
         IN  /\ st.oob \/ ~junk
             /\ GradsInRange(M)
             /\ \/ /\ tape_memory' = M.tape
                   /\ parameters' = M.params
                   /\ tape_head' = IF retain_graph THEN tape_head ELSE 0
                   /\ last' = Call("backward_dfs", root, NULL, retain_graph, NULL, "ok")
                   /\ ub' = (ub \/ st.oob)
                   /\ status' = status
                \/ /\ st.oob
                   /\ ub' = TRUE
                   /\ status' = "crashed"
                   /\ last' = Call("backward_dfs", root, NULL, retain_graph, NULL, "fault")
                   /\ UNCHANGED <<tape_memory, parameters, tape_head>>

\* ------------------------------------------------------ specifications

\* Any sequence of API calls, with any Value* the caller was ever given as
\* an argument, also one issued before a reset.  mul and relu are the
\* constructors here; add, sub and v_pow are exercised in SpecFresh.
Next ==
    \/ \E d \in LeafVals : NewVal(d)
    \/ \E a, b \in Handles : mul(a, b)
    \/ \E a \in Handles : relu(a)
    \/ \E d \in ParamVals : new_param(d)
    \/ free_vals
    \/ zero_grad
    \/ zero_grad_all
    \/ \E lr \in LearnRates : update_params(lr)
    \/ \E r \in Handles, rg \in BOOLEAN : backward(r, rg)
    \/ \E r \in Handles, rg \in BOOLEAN : backward_dfs(r, rg)

Spec == Init /\ [][Next]_vars

\* the exponent node of a v_pow sits right below its result and is never
\* returned to the caller
IsExponent(i) ==
    /\ i + 1 < MAX_TAPE_SIZE
    /\ tape_memory[i + 1].grad_fn = "pow_backward"
    /\ tape_memory[i + 1].prev1 = TapePtr(i)

\* the handles of the current graph that the caller holds
FreshHandles == {h \in LiveHandles : IsParam(h) \/ ~IsExponent(h)}

\* One graph over add, sub, mul and v_pow, built from the start of the
\* process with current handles only, and then one linear backward pass.
NextFresh ==
    /\ last.op # "backward"
    /\ \/ \E d \in LeafVals : NewVal(d)
       \/ \E a, b \in FreshHandles : add(a, b)
       \/ \E a, b \in FreshHandles : sub(a, b)
       \/ \E a, b \in FreshHandles : mul(a, b)
       \/ \E a \in FreshHandles, n \in Exponents : v_pow(a, n)
       \/ \E r \in FreshHandles, rg \in BOOLEAN : backward(r, rg)

SpecFresh == Init /\ [][NextFresh]_vars

\* test_activation's calls, for any two leaf values: x1, x2, r1 = relu(x1),
\* r2 = relu(x2), backward(r1, false), backward(r2, false)
NextActivation ==
    \/ ncalls \in {0, 1} /\ \E d \in ActVals : NewVal(d)
    \/ ncalls = 2 /\ relu(TapePtr(0))
    \/ ncalls = 3 /\ relu(TapePtr(1))
    \/ ncalls = 4 /\ backward(TapePtr(2), FALSE)
    \/ ncalls = 5 /\ backward(TapePtr(3), FALSE)

SpecActivation == Init /\ [][NextActivation]_vars

\* ------------------------------------------------------------- claims

\* an API call was made in this step
Stepped == ncalls' # ncalls

\* the tape nodes allocated since the last reset
Live == {i \in 0..(MAX_TAPE_SIZE - 1) : i < tape_head}

\* every operand of a live node is a parameter or a live node created
\* before it: no handle from before a reset was used to build the graph
LiveGraphOrdered ==
    \A i \in Live : \A c \in {tape_memory[i].prev0, tape_memory[i].prev1} :
        IsTape(c) => c < i

\* the leaves of the live graph: its nodes without a rule, apart from the
\* exponents of v_pow, and the parameters
Leaves ==
    {i \in Live : tape_memory[i].grad_fn = "noop_backward" /\ ~IsExponent(i)}
        \cup ParamHandles

\* C1: from any reachable state whose live graph was built from current
\* handles, and for any live root, backward and backward_dfs leave the same
\* grad on every leaf and every parameter.
C1_StrategyEquivalence ==
    (status = "running" /\ LiveGraphOrdered) =>
        \A r \in LiveHandles : \A l \in Leaves :
            Deref(backward_mem(CurMem, r), l).grad
                = Deref(backward_dfs_mem(CurMem, r, tape_head, FALSE), l).grad

\* C2: every tape-resident child of a live tape node has a smaller
\* tape_idx than its parent.
C2_OrderingInvariant ==
    \A i \in Live : \A c \in {tape_memory[i].prev0, tape_memory[i].prev1} :
        IsTape(c) => Deref(CurMem, c).tape_idx < tape_memory[i].tape_idx

\* the graph is freshly built: built from current handles, no grad set yet
FreshGraph ==
    /\ LiveGraphOrdered
    /\ \A i \in Live : tape_memory[i].grad = 0
    /\ \A k \in 1..Len(parameters) : parameters[k].grad = 0

RECURSIVE Partial(_, _, _)
\* d n / d l by the calculus: the sum over the paths from n down to l of
\* the products of the local derivatives (the exponent of a power is a
\* constant)
Partial(M, n, l) ==
    LET v == Deref(M, n)
        d0 == Partial(M, v.prev0, l)
        d1 == Partial(M, v.prev1, l)
        x0 == Deref(M, v.prev0).data
        x1 == Deref(M, v.prev1).data
    IN  IF n = l THEN 1
        ELSE CASE v.grad_fn = "add_backward" -> d0 + d1
               [] v.grad_fn = "sub_backward" -> d0 - d1
               [] v.grad_fn = "mul_backward" -> x1 * d0 + x0 * d1
               [] v.grad_fn = "pow_backward" -> x1 * IPow(x0, x1 - 1) * d0
               [] OTHER -> 0

RECURSIVE Eval(_, _)
\* the value of the expression rooted at n, from the data of its leaves
Eval(M, n) ==
    LET v == Deref(M, n)
    IN  CASE v.grad_fn = "add_backward" -> Eval(M, v.prev0) + Eval(M, v.prev1)
          [] v.grad_fn = "sub_backward" -> Eval(M, v.prev0) - Eval(M, v.prev1)
          [] v.grad_fn = "mul_backward" -> Eval(M, v.prev0) * Eval(M, v.prev1)
          [] v.grad_fn = "pow_backward" -> IPow(Eval(M, v.prev0), Eval(M, v.prev1))
          [] OTHER -> v.data

\* C3: on a freshly built graph over add, sub, mul and v_pow, backward(root)
\* leaves on every leaf the partial derivative of root with respect to it
\* (contributions of all paths added up), and root.data is the value of
\* the expression.
C3_GradientCorrectness ==
    [][(Stepped /\ last'.op = "backward" /\ last'.result = "ok" /\ FreshGraph) =>
        /\ \A l \in Leaves :
              Deref(Mem(tape_memory', parameters'), l).grad = Partial(CurMem, last'.a, l)
        /\ Deref(Mem(tape_memory', parameters'), last'.a).data = Eval(CurMem, last'.a)
      ]_vars

\* C3's case: z = x * x with x = 3, after backward(z): dz/dx = 6
C3_Witness ==
    /\ last.op = "backward" /\ last.a = TapePtr(1) /\ last.result = "ok"
    /\ tape_memory[0].grad_fn = "noop_backward" /\ tape_memory[0].data = 3
    /\ tape_memory[1].grad_fn = "mul_backward"
    /\ tape_memory[1].prev0 = TapePtr(0) /\ tape_memory[1].prev1 = TapePtr(0)
    /\ tape_memory[1].data = 9
    /\ tape_memory[0].grad = 6

\* C4: at the end of test_activation's calls, for any x1 and x2:
\* r_i.data = max(x_i, 0) and x_i.grad is 1 if x_i > 0 and 0 otherwise.
C4_IndependentRoots ==
    (ncalls = 6 /\ last.op = "backward" /\ last.a = TapePtr(3)) =>
        \A i \in {0, 1} :
            LET x == tape_memory[i]
                r == tape_memory[i + 2]
            IN  /\ r.data = (IF x.data > 0 THEN x.data ELSE 0)
                /\ x.grad = (IF x.data > 0 THEN 1 ELSE 0)

\* the calls that allocate a tape node
AllocOps == {"new_val", "add", "sub", "mul", "relu", "v_pow"}

BackwardOps == {"backward", "backward_dfs"}

\* C5: an allocation attempted with tape_head = MAX_TAPE_SIZE ends with a
\* reported CapacityExceeded, stores nothing and leaves the process running.
C5_CapacityHandling ==
    [][(Stepped /\ tape_head = MAX_TAPE_SIZE /\ last'.op \in AllocOps) =>
        /\ last'.result = "CapacityExceeded"
        /\ status' = "running"
        /\ UNCHANGED <<tape_memory, tape_head, parameters>>
      ]_vars

\* h was issued before the last reset: its slot is at or above the cursor
Stale(h) == IsTape(h) /\ h >= tape_head

\* C6: a call given a handle issued before the last reset, as an operand or
\* as a backward root, ends with a reported StaleHandle and touches no node.
C6_StaleHandles ==
    [][(Stepped /\ (Stale(last'.a) \/ Stale(last'.b))) =>
        /\ last'.result = "StaleHandle"
        /\ UNCHANGED <<tape_memory, parameters>>
      ]_vars

RECURSIVE ReachFrom(_, _, _)
\* the Value* reachable through prev links from the ones in todo
ReachFrom(M, todo, seen) ==
    IF todo = {} THEN seen
    ELSE LET p == CHOOSE q \in todo : TRUE
             v == Deref(M, p)
             kids == {c \in {v.prev0, v.prev1} : c # NULL} \ (seen \cup {p})
         IN  ReachFrom(M, (todo \ {p}) \cup kids, seen \cup {p})

Reachable(M, root) == ReachFrom(M, {root}, {})

\* C7: on a live graph built from current handles, a backward pass of
\* either strategy changes the grad of a parameter only if the parameter
\* is reachable from the root through child links.
C7_ParameterIsolation ==
    [][(/\ Stepped
        /\ last'.op \in BackwardOps /\ last'.result = "ok"
        /\ LiveGraphOrdered /\ last'.a \in LiveHandles) =>
        \A k \in 1..Len(parameters) :
            parameters'[k].grad # parameters[k].grad
                => ParamPtr(k) \in Reachable(CurMem, last'.a)
      ]_vars

\* C8: update_params changes only the data of each parameter, to
\* data - lr * grad; zero_grad changes only the grad of each parameter,
\* to 0; both leave the tape and the cursor as they are.
C8_UpdateIsolation ==
    [][/\ (Stepped /\ last'.op = "update_params") =>
            /\ UNCHANGED <<tape_memory, tape_head>>
            /\ Len(parameters') = Len(parameters)
            /\ \E lr \in LearnRates : \A k \in 1..Len(parameters) :
                  parameters'[k] =
                      [parameters[k] EXCEPT !.data = @ - lr * parameters[k].grad]
       /\ (Stepped /\ last'.op = "zero_grad") =>
            /\ UNCHANGED <<tape_memory, tape_head>>
            /\ Len(parameters') = Len(parameters)
            /\ \A k \in 1..Len(parameters) :
                  parameters'[k] = [parameters[k] EXCEPT !.grad = 0]
      ]_vars

\* C8's case: a parameter was stepped by update_params with a grad other
\* than 0, then zero_grad ran while a tape node still holds a retained grad
C8_Witness ==
    /\ last.op = "zero_grad"
    /\ \E k \in 1..Len(parameters) :
          parameters[k].data \notin ParamVals /\ parameters[k].grad = 0
    /\ \E i \in Live : tape_memory[i].grad # 0

\* C9: a backward pass of either strategy leaves the cursor at 0 with
\* retain_graph = false and unchanged with retain_graph = true; so after
\* the backward(root, false) and update_params that end a training
\* iteration the cursor is 0; and each allocation adds one node (v_pow
\* two), so the live nodes of an iteration are the nodes it built.
C9_BoundedTape ==
    [][/\ (Stepped /\ last'.op \in BackwardOps /\ last'.result = "ok") =>
            tape_head' = (IF last'.flag THEN tape_head ELSE 0)
       /\ (/\ Stepped
           /\ last.op \in BackwardOps /\ ~last.flag /\ last.result = "ok"
           /\ last'.op = "update_params") => tape_head' = 0
       /\ (Stepped /\ last'.op \in AllocOps /\ last'.result = "ok") =>
            tape_head' = tape_head + (IF last'.op = "v_pow" THEN 2 ELSE 1)
      ]_vars

\* C9's case: the end of a training iteration: a graph over a parameter,
\* zero_grad, backward(root, false), update_params
C9_Witness ==
    /\ last.op = "update_params"
    /\ tape_head = 0
    /\ tape_memory[0].grad_fn = "mul_backward" /\ tape_memory[0].grad = 1
    /\ tape_memory[0].prev0 = ParamPtr(1)
    /\ parameters[1].grad # 0
    /\ parameters[1].data \notin ParamVals

\* the tape with every slot at or above the cursor as it was before any
\* allocation
Scrub(t) == [i \in DOMAIN t |-> IF i < tape_head THEN t[i] ELSE ZeroValue]

\* the grads of the live nodes and of the parameters
LiveGrads(M) ==
    <<[i \in Live |-> M.tape[i].grad], [k \in DOMAIN M.params |-> M.params[k].grad]>>

\* what the pass named by call leaves, computed from memory M
PassMem(M, call) ==
    IF call.op = "backward" THEN backward_mem(M, call.a)
    ELSE backward_dfs_mem(M, call.a, tape_head, FALSE)

\* C10: after a reset the next allocation is stored at index 0, with grad
\* 0 and the operands given, whatever the slot held; and the grads a
\* backward pass of either strategy leaves on a live graph built from
\* current handles are those it computes with every slot at or above the
\* cursor wiped: nothing of the nodes of earlier graphs enters them.
C10_ResetFreshness ==
    [][/\ (/\ Stepped
           /\ (last.op = "free_vals" \/ (last.op \in BackwardOps /\ ~last.flag))
           /\ last.result = "ok"
           /\ last'.op \in (AllocOps \ {"v_pow"}) /\ last'.result = "ok") =>
            /\ last'.ret = TapePtr(0)
            /\ tape_head' = 1
            /\ tape_memory'[0].grad = 0
            /\ tape_memory'[0].prev0 = last'.a
            /\ tape_memory'[0].prev1 = last'.b
            /\ \A i \in 1..(MAX_TAPE_SIZE - 1) : tape_memory'[i] = tape_memory[i]
       /\ (/\ Stepped
           /\ last'.op \in BackwardOps /\ last'.result = "ok"
           /\ LiveGraphOrdered /\ last'.a \in LiveHandles) =>
            LiveGrads(Mem(tape_memory', parameters'))
                = LiveGrads(PassMem(Mem(Scrub(tape_memory), parameters), last'))
      ]_vars

\* C10's case: a graph was built and differentiated, the tape was reset, a
\* new node took index 0 and a backward pass ran on it, while the slot above
\* still holds a node and a grad of the earlier graph
C10_Witness ==
    /\ last.op \in BackwardOps /\ last.flag /\ last.a = TapePtr(0)
    /\ tape_head = 1
    /\ tape_memory[0].grad = 1
    /\ tape_memory[1].grad_fn = "mul_backward" /\ tape_memory[1].grad # 0

\* the order in which backward calls the rules: the slots from the root's
\* index down to 0
SweepOrder(M, root) ==
    LET n == Deref(M, root).tape_idx
    IN  [k \in 1..(n + 1) |-> TapePtr(n + 1 - k)]

\* the order in which backward_dfs calls the rules: the list of build_topo
\* from its end
DfsOrder(M, root, size, junk) ==
    LET t == TopoOf(M, root, size, junk).topo
    IN  [k \in 1..Len(t) |-> t[Len(t) + 1 - k]]

RECURSIVE ApplyRules(_, _, _)
\* the rules of ord[k], ord[k + 1], ... called one after the other
ApplyRules(M, ord, k) ==
    IF k > Len(ord) THEN M ELSE ApplyRules(CallGradFn(M, ord[k]), ord, k + 1)

\* node c has n as an operand
Consumes(M, c, n) == n \in {Deref(M, c).prev0, Deref(M, c).prev1}

\* a pass from memory M that seeds root, then calls the rules in order ord:
\* no node twice, and no node before one of its consumers in ord
OrderedPass(M, root, ord) ==
    /\ \A i, j \in 1..Len(ord) : ord[i] = ord[j] => i = j
    /\ \A i, j \in 1..Len(ord) : Consumes(M, ord[j], ord[i]) => j < i
    /\ Mem(tape_memory', parameters') = ApplyRules(SetGrad(M, root, 1), ord, 1)

\* C11: a completed pass of either strategy is root.grad = 1 followed by
\* the rules of the nodes it visits, each called exactly once, and a
\* node's rule is called only after the rules of all of its visited
\* consumers.
C11_BackwardOrdering ==
    [][(Stepped /\ last'.op \in BackwardOps /\ last'.result = "ok") =>
        IF last'.op = "backward"
        THEN OrderedPass(CurMem, last'.a, SweepOrder(CurMem, last'.a))
        ELSE \E junk \in BOOLEAN :
                OrderedPass(CurMem, last'.a, DfsOrder(CurMem, last'.a, tape_head, junk))
      ]_vars

\* memory M as it was when its graph was freshly built: same nodes, same
\* data, every grad 0
ZeroGrads(M) ==
    Mem([i \in DOMAIN M.tape |-> [M.tape[i] EXCEPT !.grad = 0]],
        [k \in DOMAIN M.params |-> [M.params[k] EXCEPT !.grad = 0]])

\* C12: zero_grad_all completes and leaves grad 0 on every live tape node
\* and every parameter, changing nothing else; and a pass of either
\* strategy with retain_graph = true that follows it, on a graph built from
\* current handles, leaves on every live node and every parameter the grad
\* that backward leaves on that graph freshly built.
C12_RetainedReuse ==
    [][/\ (Stepped /\ last'.op = "zero_grad_all") =>
            /\ last'.result = "ok" /\ status' = "running"
            /\ \A i \in Live : tape_memory'[i] = [tape_memory[i] EXCEPT !.grad = 0]
            /\ \A k \in 1..Len(parameters) :
                  parameters'[k] = [parameters[k] EXCEPT !.grad = 0]
            /\ Len(parameters') = Len(parameters)
            /\ tape_head' = tape_head
       /\ (/\ Stepped
           /\ last.op = "zero_grad_all" /\ last.result = "ok"
           /\ last'.op \in BackwardOps /\ last'.flag /\ last'.result = "ok"
           /\ LiveGraphOrdered /\ last'.a \in LiveHandles) =>
            LiveGrads(Mem(tape_memory', parameters'))
                = LiveGrads(backward_mem(ZeroGrads(CurMem), last'.a))
      ]_vars

\* C13: in every reachable state 0 <= tape_head <= MAX_TAPE_SIZE, and no
\* operation has used an index outside its array: tape_memory outside
\* [0, MAX_TAPE_SIZE), or visited and topo outside [0, tape_head).
C13_IndexBounds ==
    /\ tape_head \in 0..MAX_TAPE_SIZE
    /\ ~ub

====
